---------------------------- MODULE Spec2Model ----------------------------
(***************************************************************************)
(* CSProCompile: the command-line driver (src/src/CSProCompile.cpp) and    *)
(* the compiler engine adapter CSProEngineImpl                             *)
(* (src/src/CompilerInterface.cpp) over the value types of                 *)
(* CompilerInterface.h (src/unnamed/part_001).                             *)
(*                                                                         *)
(* Paths and arguments are sequences of one-character strings, so that the *)
(* string and std::filesystem::path operations of the code (first          *)
(* character, extension, parent_path, replace_extension) are computed.     *)
(*                                                                         *)
(* Two specifications:                                                     *)
(*   Spec        one process run of main() (argv chosen in Init).          *)
(*   EngineSpec  a client of ICompilerEngine calling initialize, compile   *)
(*               and shutdown in any order on one CSProEngineImpl.         *)
(***************************************************************************)
EXTENDS Integers, Sequences, FiniteSets, TLC

(***************************************************************************)
(* Bounds of the model.                                                    *)
(***************************************************************************)
\* longest argv tail (argc - 1) main() is run on
MaxArgs == 2
\* most parser messages one FullCompile pass leaves in the session
MaxMsgs == 2
\* most calls the ICompilerEngine client makes in EngineSpec
MaxCalls == 3

(***************************************************************************)
(* Strings.                                                                *)
(***************************************************************************)
S_h         == <<"-","h">>
S_help      == <<"-","-","h","e","l","p">>
S_v         == <<"-","v">>
S_checkOnly == <<"-","-","c","h","e","c","k","-","o","n","l","y">>
S_json      == <<"-","-","j","s","o","n">>
S_o         == <<"-","o">>
S_x         == <<"-","x">>
S_ent       == <<".","e","n","t">>
S_bch       == <<".","b","c","h">>
S_pff       == <<".","p","f","f">>
S_pen       == <<".","p","e","n">>
\* input paths: d/a.ent, b.bch and /c.pff exist; n.txt exists, g.ent does not
P_dAEnt     == <<"d","/","a",".","e","n","t">>
P_bBch      == <<"b",".","b","c","h">>
P_cPff      == <<"/","c",".","p","f","f">>
P_nTxt      == <<"n",".","t","x","t">>
P_gEnt      == <<"g",".","e","n","t">>
EmptyStr    == <<>>

\* the files of the file system the process is started on
ExistingFiles == {P_dAEnt, P_bBch, P_cPff, P_nTxt}
\* the working directory the process is started in
StartDir == <<"/","w">>

\* the paths the client of EngineSpec compiles
ClientInputs == {P_dAEnt, P_bBch, P_gEnt}

\* the words argv is drawn from
ArgWords ==
    {S_h, S_help, S_v, S_checkOnly, S_json, S_o, S_x,
     P_dAEnt, P_bBch, P_cPff, P_nTxt, P_gEnt}

(***************************************************************************)
(* std::filesystem::path, on generic-format paths.                         *)
(***************************************************************************)
\* index of the last occurrence of c in s, 0 when there is none
LastIndexOf(s, c) ==
    LET I == {i \in 1..Len(s) : s[i] = c}
    IN  IF I = {} THEN 0 ELSE CHOOSE i \in I : \A j \in I : j <= i

PathFilename(p) ==
    LET k == LastIndexOf(p, "/") IN SubSeq(p, k + 1, Len(p))

PathParent(p) ==
    LET k == LastIndexOf(p, "/")
    IN  IF k = 0 THEN EmptyStr
        ELSE IF k = 1 THEN <<"/">>
        ELSE SubSeq(p, 1, k - 1)

PathExtension(p) ==
    LET f == PathFilename(p)
        k == LastIndexOf(f, ".")
    IN  IF f = <<".">> \/ f = <<".",".">> \/ k <= 1 THEN EmptyStr
        ELSE SubSeq(f, k, Len(f))

PathReplaceExtension(p, ext) ==
    SubSeq(p, 1, Len(p) - Len(PathExtension(p))) \o ext

PathIsRelative(p) == p = EmptyStr \/ p[1] # "/"

\* operator/ : an absolute right operand replaces the left one
PathJoin(a, b) ==
    IF ~PathIsRelative(b) \/ a = EmptyStr THEN b
    ELSE IF a[Len(a)] = "/" THEN a \o b
    ELSE a \o <<"/">> \o b

\* remove_filename keeps the directory separator
PathRemoveFilename(p) == SubSeq(p, 1, LastIndexOf(p, "/"))

\* the directory the operating system reports after chdir(p)
DirOf(p) ==
    IF Len(p) > 1 /\ p[Len(p)] = "/" THEN SubSeq(p, 1, Len(p) - 1) ELSE p

\* the file system: a path names an existing file, or an existing directory,
\* when resolved against the working directory dir
AbsoluteFiles == {PathJoin(StartDir, f) : f \in ExistingFiles}

FileExists(dir, p) == PathJoin(dir, p) \in AbsoluteFiles

DirExists(dir, p) ==
    LET abs == DirOf(PathJoin(dir, p))
    IN  \/ abs = <<"/">>
        \/ abs \in {PathParent(f) : f \in AbsoluteFiles}

(***************************************************************************)
(* Text that is only copied, compared and concatenated (messages, names)   *)
(* is a sequence of fragments; paths and arguments are sequences of        *)
(* characters.                                                             *)
(***************************************************************************)
T_GenericParserMessage == <<"Logic - Parser Message">>
T_FailedInitEngine     == <<"Failed to initialize CSPro engine">>
T_FailedInitCompiler   == <<"Failed to initialize CSPro compiler">>
T_FailedLoadSource     == <<"Failed to load application source code">>
T_ExceptionPrefix      == <<"Exception: ">>
T_UnknownException     == <<"Unknown exception during compilation">>

(***************************************************************************)
(* DiagnosticMessage, CompilationResult (CompilerInterface.h).             *)
(***************************************************************************)
Severity == {"Error", "Warning", "Info"}

DiagnosticMessage(file, line, column, message, procName, severity) ==
    [file |-> file, line |-> line, column |-> column, message |-> message,
     procName |-> procName, severity |-> severity]

\* CompilationResult(): success(false), errorCount(0), warningCount(0)
NewCompilationResult ==
    [success |-> FALSE, errorCount |-> 0, warningCount |-> 0,
     diagnostics |-> <<>>, compiledOutput |-> EmptyStr]

\* number of diagnostics of severity sev
RECURSIVE CountSeverity(_, _)
CountSeverity(diags, sev) ==
    IF diags = <<>> THEN 0
    ELSE (IF Head(diags).severity = sev THEN 1 ELSE 0)
         + CountSeverity(Tail(diags), sev)

(***************************************************************************)
(* The engine boundary: Logic::ParserMessage and what the SDK may throw.   *)
(***************************************************************************)
ParserMessageType == {"Error", "Warning", "DeprecationMajor", "DeprecationMinor"}

ParserMessage(type, line, pos, what, text, proc, unit) ==
    [type |-> type, line_number |-> line, position_in_line |-> pos,
     what |-> what, message_text |-> text, proc_name |-> proc,
     compilation_unit_name |-> unit]

\* The texts of a ParserMessage but what() are wide strings.  A fragment of
\* one is ASCII text or one wide character beyond U+00FF, here the capital
\* omega.
W_Omega == "U+03A9"

\* the messages a FullCompile pass may leave in the session
EngineMessages ==
    { ParserMessage("Error", 5, 3, T_GenericParserMessage, <<"bad token">>,
                    <<"INPUT">>, EmptyStr),
      ParserMessage("Error", 0, 0, <<"bad token">>, EmptyStr,
                    EmptyStr, EmptyStr),
      ParserMessage("Warning", 5, 3, T_GenericParserMessage, EmptyStr,
                    EmptyStr, <<"inc.apc">>),
      ParserMessage("DeprecationMajor", 0, 0, <<"old call">>, <<"bad token">>,
                    <<"INPUT">>, <<W_Omega, ".apc">>),
      ParserMessage("DeprecationMinor", 7, 1, T_GenericParserMessage,
                    <<"bad token">>, EmptyStr, EmptyStr) }

\* sequences over S of length at most n
SeqUpTo(S, n) == UNION {[1..k -> S] : k \in 0..n}

\* a std::exception (with its what()) or anything else (an MFC CException*)
Exceptions ==
    { [kind |-> "std", what |-> <<"boom">>],
      [kind |-> "other", what |-> EmptyStr] }

(***************************************************************************)
(* State.                                                                  *)
(***************************************************************************)
VARIABLES
    \* the process
    cwd,            \* std::filesystem::current_path()
    sdk,            \* the build defines CSPRO_SDK_AVAILABLE
    bootCalls,      \* calls so far of setlocale, AfxWinInit, LoadMessages
    \* CSProEngineImpl
    m_initialized,
    m_application,  \* the unique_ptr holds an Application
    m_compiler,     \* the unique_ptr holds a CCompiler
    \* one call of CSProEngineImpl::compile
    cpc,            \* where the call is
    options,        \* its CompilerOptions
    originalCwd,    \* its local originalCwd
    appDir,         \* its local appDir
    session,        \* the session's parser messages after FullCompile
    result,         \* its local result, the value it returns
    call,           \* what is recorded of the call (see NoCall)
    \* the client of the engine
    engineCalls,    \* the calls made on ICompilerEngine, in order
    \* main() and CSProCommandLineCompiler
    pc,
    argv,           \* the arguments the loop of main() has yet to read
    helpGiven,      \* -h or --help was among the arguments
    inputFile, outputFile, verboseMode, checkOnly, jsonOutput,
    cliResult,      \* the result CSProCommandLineCompiler::compile returns
    logs,           \* the two log writers and the files they wrote
    report,         \* what outputResults rendered
    usagePrinted,
    exitCode,
    exitCause       \* which return statement of main() ended the process

engineVars == <<m_initialized, m_application, m_compiler>>
processVars == <<cwd, sdk, bootCalls>>
compileVars == <<cpc, options, originalCwd, appDir, session, result, call>>
cliVars == <<pc, argv, helpGiven, inputFile, outputFile, verboseMode, checkOnly,
             jsonOutput, cliResult, logs, report, usagePrinted, exitCode,
             exitCause>>
vars == <<processVars, engineVars, compileVars, engineCalls, cliVars>>

\* no call of compile has been made; otherwise: the working directory the
\* call was entered with, the engine state it was entered with, the steps
\* it has run, how it returned, and the exception it caught and where
NoException == [kind |-> "none", what |-> EmptyStr]

NoCall ==
    [cwdAtEntry |-> EmptyStr, initAtEntry |-> FALSE, steps |-> <<>>,
     exit |-> "none", thrown |-> NoException, thrownAt |-> "none"]

\* neither log writer has run; otherwise: which writers ran, which files
\* they could open, where, and the lines they wrote
NoLogs ==
    [detailedInvoked |-> FALSE, formattedInvoked |-> FALSE,
     detailedWritten |-> FALSE, formattedWritten |-> FALSE,
     detailedPath |-> EmptyStr, formattedPath |-> EmptyStr,
     detailed |-> <<>>, formatted |-> <<>>]


(***************************************************************************)
(* CSProEngineImpl::initialize and shutdown.                               *)
(***************************************************************************)
NoBootCalls == [setlocale |-> 0, AfxWinInit |-> 0, LoadMessages |-> 0]

\* initialize() returning ret.  The locale is set before m_initialized is
\* looked at.  No CWinApp object exists in this program, so AfxGetApp() is
\* null and AfxWinInit is called; whatever it throws makes initialize
\* return false, whatever LoadMessages throws is ignored.
Initialize(ret) ==
    IF m_initialized
    THEN /\ ret = TRUE
         /\ bootCalls' = [bootCalls EXCEPT !.setlocale = @ + 1]
         /\ UNCHANGED m_initialized
    ELSE IF ~sdk
    THEN /\ ret = FALSE
         /\ bootCalls' = [bootCalls EXCEPT !.setlocale = @ + 1]
         /\ UNCHANGED m_initialized
    ELSE \/ /\ ret = FALSE
            /\ bootCalls' = [bootCalls EXCEPT !.setlocale = @ + 1,
                                              !.AfxWinInit = @ + 1]
            /\ UNCHANGED m_initialized
         \/ /\ ret = TRUE
            /\ bootCalls' = [bootCalls EXCEPT !.setlocale = @ + 1,
                                              !.AfxWinInit = @ + 1,
                                              !.LoadMessages = @ + 1]
            /\ m_initialized' = TRUE

\* shutdown() that keeps the compiler session
Shutdown_KeepsCompiler ==
    /\ UNCHANGED m_compiler
    /\ m_application' = FALSE
    /\ m_initialized' = FALSE

\* shutdown() that forgets the flag
Shutdown_StaysInitialized ==
    /\ m_compiler' = FALSE
    /\ m_application' = FALSE
    /\ UNCHANGED m_initialized

\* shutdown()
Shutdown ==
    /\ m_compiler' = FALSE
    /\ m_application' = FALSE
    /\ m_initialized' = FALSE

(***************************************************************************)
(* CSProEngineImpl::compile: the values it builds.                         *)
(***************************************************************************)
\* InitFailResult without the diagnostic
InitFailResult_Silent(res) == [res EXCEPT !.success = FALSE]

\* lines 108-109
InitFailResult(res) ==
    [res EXCEPT !.success = FALSE,
                !.diagnostics = Append(@,
                    DiagnosticMessage(EmptyStr, 0, 0, T_FailedInitEngine,
                                      EmptyStr, "Error"))]

\* lines 150-151
LoadFailResult(res, input) ==
    [res EXCEPT !.diagnostics = Append(@,
                    DiagnosticMessage(input, 0, 0, T_FailedLoadSource,
                                      EmptyStr, "Error")),
                !.success = FALSE]


\* CatchResult without the catch (...) clause's diagnostic
CatchResult_StdOnly(res, input, e) ==
    IF e.kind = "std"
    THEN [res EXCEPT !.diagnostics = Append(@,
                        DiagnosticMessage(input, 0, 0, T_ExceptionPrefix \o e.what,
                                          EmptyStr, "Error")),
                     !.success = FALSE]
    ELSE [res EXCEPT !.success = FALSE]

\* the two catch clauses, lines 219-226
CatchResult(res, input, e) ==
    [res EXCEPT !.diagnostics = Append(@,
                    DiagnosticMessage(input, 0, 0,
                        IF e.kind = "std" THEN T_ExceptionPrefix \o e.what
                                          ELSE T_UnknownException,
                        EmptyStr, "Error")),
                !.success = FALSE]

\* std::string(w.begin(), w.end()) of lines 175, 181, 184 and 201: every
\* wchar_t is converted to a char by itself, which keeps its low eight bits;
\* of U+03A9 the byte A9 is left.
NarrowChar(c) == IF c = W_Omega THEN "\\xA9" ELSE c

Narrow(w) == [i \in 1..Len(w) |-> NarrowChar(w[i])]

\* Translate giving the deprecations the severity Info
Translate_DeprecationIsInfo(m, input) ==
    DiagnosticMessage(
        IF m.compilation_unit_name # EmptyStr
            THEN Narrow(m.compilation_unit_name) ELSE input,
        m.line_number,
        m.position_in_line,
        IF m.what = T_GenericParserMessage /\ m.message_text # EmptyStr
            THEN Narrow(m.message_text) ELSE m.what,
        IF m.proc_name # EmptyStr THEN Narrow(m.proc_name)
            ELSE IF m.compilation_unit_name # EmptyStr
                THEN Narrow(m.compilation_unit_name) ELSE EmptyStr,
        IF m.type = "Error" THEN "Error"
            ELSE IF m.type = "Warning" THEN "Warning" ELSE "Info")

\* the DiagnosticMessage of one parser message, lines 167-203
Translate(m, input) ==
    DiagnosticMessage(
        IF m.compilation_unit_name # EmptyStr
            THEN Narrow(m.compilation_unit_name) ELSE input,
        m.line_number,
        m.position_in_line,
        IF m.what = T_GenericParserMessage /\ m.message_text # EmptyStr
            THEN Narrow(m.message_text) ELSE m.what,
        IF m.proc_name # EmptyStr THEN Narrow(m.proc_name)
            ELSE IF m.compilation_unit_name # EmptyStr
                THEN Narrow(m.compilation_unit_name) ELSE EmptyStr,
        IF m.type = "Error" THEN "Error" ELSE "Warning")

\* DrainResult putting the new diagnostic first
DrainResult_Prepends(res, m, input) ==
    [res EXCEPT !.errorCount = IF m.type = "Error" THEN @ + 1 ELSE @,
                !.warningCount = IF m.type = "Error" THEN @ ELSE @ + 1,
                !.diagnostics = <<Translate(m, input)>> \o @]

\* one iteration of the drain loop, lines 166-206
DrainResult(res, m, input) ==
    [res EXCEPT !.errorCount = IF m.type = "Error" THEN @ + 1 ELSE @,
                !.warningCount = IF m.type = "Error" THEN @ ELSE @ + 1,
                !.diagnostics = Append(@, Translate(m, input))]


\* FinishResult naming the output whatever the error count
FinishResult_OutputAlways(res, input) ==
    [res EXCEPT !.success = (res.errorCount = 0),
                !.compiledOutput = PathReplaceExtension(input, S_pen)]

\* FinishResult with the test of errorCount left out
FinishResult_AlwaysSuccess(res, input) ==
    [res EXCEPT !.success = TRUE,
                !.compiledOutput = PathReplaceExtension(input, S_pen)]

\* lines 208-216
FinishResult(res, input) ==
    IF res.errorCount = 0
    THEN [res EXCEPT !.success = TRUE,
                     !.compiledOutput = PathReplaceExtension(input, S_pen)]
    ELSE [res EXCEPT !.success = FALSE]

\* lines 124-131: the directory compile changes to
AppDirOf(origCwd, input) ==
    LET abs == IF PathIsRelative(input) THEN PathJoin(origCwd, input) ELSE input
    IN  PathRemoveFilename(abs)


(***************************************************************************)
(* CSProEngineImpl::compile, statement by statement.  A call is entered    *)
(* by its caller (cpc = "enter", result the fresh local of line 103) and   *)
(* has returned when cpc = "returned".                                     *)
(***************************************************************************)
Ran(step) == [call EXCEPT !.steps = Append(@, step)]

\* what the caller of compile does to enter it
EnterCompile(input) ==
    /\ cpc' = "enter"
    /\ options' = [inputFile |-> input]
    /\ result' = NewCompilationResult
    /\ call' = [NoCall EXCEPT !.cwdAtEntry = cwd, !.initAtEntry = m_initialized]
    /\ UNCHANGED <<originalCwd, appDir, session>>

\* an exception thrown inside the try block by `step` and caught at 219-226
Catch(step) ==
    \E e \in Exceptions :
        /\ result' = CatchResult(result, options.inputFile, e)
        /\ call' = [call EXCEPT !.steps = Append(@, step), !.exit = "exception",
                                !.thrown = e, !.thrownAt = step]
        /\ cpc' = "returned"

\* lines 106-112, engine already initialized
CompileInitialized ==
    /\ cpc = "enter"
    /\ m_initialized
    /\ cpc' = "resolve"
    /\ UNCHANGED <<options, originalCwd, appDir, session, result, call>>
    /\ UNCHANGED <<processVars, engineVars, engineCalls, cliVars>>

\* lines 106-112, engine not initialized and initialize() succeeds
CompileInitializes ==
    /\ cpc = "enter"
    /\ ~m_initialized
    /\ Initialize(TRUE)
    /\ cpc' = "resolve"
    /\ call' = Ran("initialize")
    /\ UNCHANGED <<options, originalCwd, appDir, session, result>>
    /\ UNCHANGED <<cwd, sdk, m_application, m_compiler, engineCalls, cliVars>>

\* lines 106-112, engine not initialized and initialize() fails
CompileInitFails ==
    /\ cpc = "enter"
    /\ ~m_initialized
    /\ Initialize(FALSE)
    /\ result' = InitFailResult(result)
    /\ cpc' = "returned"
    /\ call' = [Ran("initialize") EXCEPT !.exit = "initfail"]
    /\ UNCHANGED <<options, originalCwd, appDir, session>>
    /\ UNCHANGED <<cwd, sdk, m_application, m_compiler, engineCalls, cliVars>>

\* lines 116-131: the Application is made, the paths are resolved
CompileResolve ==
    /\ cpc = "resolve"
    /\ m_application' = TRUE
    /\ originalCwd' = cwd
    /\ \/ /\ FileExists(cwd, options.inputFile)
          /\ appDir' = AppDirOf(cwd, options.inputFile)
          /\ cpc' = "chdir"
          /\ call' = Ran("resolve")
          /\ UNCHANGED result
       \/ /\ Catch("resolve")
          /\ UNCHANGED appDir
    /\ UNCHANGED <<options, session>>
    /\ UNCHANGED <<processVars, m_initialized, m_compiler, engineCalls, cliVars>>

\* line 133
CompileChdir ==
    /\ cpc = "chdir"
    /\ \/ /\ cwd' = DirOf(appDir)
          /\ cpc' = "open"
          /\ call' = Ran("chdir")
          /\ UNCHANGED result
       \/ /\ Catch("chdir")
          /\ UNCHANGED cwd
    /\ UNCHANGED <<options, originalCwd, appDir, session>>
    /\ UNCHANGED <<sdk, bootCalls, engineVars, engineCalls, cliVars>>

\* lines 135-141: Application::Open, then the logic settings
CompileOpen ==
    /\ cpc = "open"
    /\ \/ /\ cpc' = "restore"
          /\ call' = Ran("open")
          /\ UNCHANGED result
       \/ Catch("open")
    /\ UNCHANGED <<options, originalCwd, appDir, session>>
    /\ UNCHANGED <<processVars, engineVars, engineCalls, cliVars>>

\* line 143
CompileRestoreCwd ==
    /\ cpc = "restore"
    /\ cwd' = originalCwd
    /\ cpc' = "build"
    /\ call' = Ran("restore")
    /\ UNCHANGED <<options, originalCwd, appDir, session, result>>
    /\ UNCHANGED <<sdk, bootCalls, engineVars, engineCalls, cliVars>>

\* line 145
CompileBuild ==
    /\ cpc = "build"
    /\ \/ /\ cpc' = "load"
          /\ call' = Ran("build")
          /\ UNCHANGED result
       \/ Catch("build")
    /\ UNCHANGED <<options, originalCwd, appDir, session>>
    /\ UNCHANGED <<processVars, engineVars, engineCalls, cliVars>>

\* CompileLoad without the return of line 153
CompileLoad_GoesOn ==
    /\ cpc = "load"
    /\ \/ /\ cpc' = "fullcompile"
          /\ call' = Ran("load")
          /\ UNCHANGED result
       \/ /\ result' = LoadFailResult(result, options.inputFile)
          /\ cpc' = "fullcompile"
          /\ call' = [Ran("load") EXCEPT !.exit = "loadfail"]
       \/ Catch("load")
    /\ UNCHANGED <<options, originalCwd, appDir, session>>
    /\ UNCHANGED <<processVars, engineVars, engineCalls, cliVars>>

\* lines 147-154: CSourceCode::Load succeeds, returns false, or throws
CompileLoad ==
    /\ cpc = "load"
    /\ \/ /\ cpc' = "fullcompile"
          /\ call' = Ran("load")
          /\ UNCHANGED result
       \/ /\ result' = LoadFailResult(result, options.inputFile)
          /\ cpc' = "returned"
          /\ call' = [Ran("load") EXCEPT !.exit = "loadfail"]
       \/ Catch("load")
    /\ UNCHANGED <<options, originalCwd, appDir, session>>
    /\ UNCHANGED <<processVars, engineVars, engineCalls, cliVars>>

\* lines 156-164: the CCompiler is made and FullCompile run; the session
\* then holds the pass's parser messages
CompileFullCompile ==
    /\ cpc = "fullcompile"
    /\ m_compiler' = TRUE
    /\ \/ /\ \E msgs \in SeqUpTo(EngineMessages, MaxMsgs) : session' = msgs
          /\ cpc' = "drain"
          /\ call' = Ran("fullcompile")
          /\ UNCHANGED result
       \/ /\ Catch("fullcompile")
          /\ UNCHANGED session
    /\ UNCHANGED <<options, originalCwd, appDir>>
    /\ UNCHANGED <<processVars, m_initialized, m_application, engineCalls, cliVars>>

\* lines 166-206: one iteration of the loop over the session's messages
CompileDrain ==
    /\ cpc = "drain"
    /\ Len(result.diagnostics) < Len(session)
    /\ \/ /\ result' = DrainResult(result, session[Len(result.diagnostics) + 1],
                                   options.inputFile)
          /\ call' = Ran("drain")
          /\ UNCHANGED cpc
       \/ Catch("drain")
    /\ UNCHANGED <<options, originalCwd, appDir, session>>
    /\ UNCHANGED <<processVars, engineVars, engineCalls, cliVars>>

\* lines 208-216 and 231-234, after the loop
CompileFinish ==
    /\ cpc = "drain"
    /\ Len(result.diagnostics) = Len(session)
    /\ result' = FinishResult(result, options.inputFile)
    /\ cpc' = "returned"
    /\ call' = [call EXCEPT !.exit = "normal"]
    /\ UNCHANGED <<options, originalCwd, appDir, session>>
    /\ UNCHANGED <<processVars, engineVars, engineCalls, cliVars>>

\* the steps of compile a client that initialized the engine can see
CompileNext ==
    \/ CompileInitialized
    \/ CompileResolve
    \/ CompileChdir
    \/ CompileOpen
    \/ CompileRestoreCwd
    \/ CompileBuild
    \/ CompileLoad
    \/ CompileFullCompile
    \/ CompileDrain
    \/ CompileFinish


(***************************************************************************)
(* EngineSpec: a client of ICompilerEngine.  It holds one engine made by   *)
(* createCompilerEngine() and calls it, one call at a time.                *)
(***************************************************************************)
EngineCall(op, ret) == [op |-> op, ret |-> ret]

ClientReady ==
    /\ pc = "client"
    /\ cpc \in {"idle", "returned"}
    /\ Len(engineCalls) < MaxCalls

ClientInitialize ==
    /\ ClientReady
    /\ \E ret \in BOOLEAN :
          /\ Initialize(ret)
          /\ engineCalls' = Append(engineCalls, EngineCall("initialize", ret))
    /\ UNCHANGED <<cwd, sdk, m_application, m_compiler, compileVars, cliVars>>

ClientCompile ==
    /\ ClientReady
    /\ \E input \in ClientInputs : EnterCompile(input)
    /\ engineCalls' = Append(engineCalls, EngineCall("compile", TRUE))
    /\ UNCHANGED <<processVars, engineVars, cliVars>>

ClientShutdown ==
    /\ ClientReady
    /\ Shutdown
    /\ engineCalls' = Append(engineCalls, EngineCall("shutdown", TRUE))
    /\ UNCHANGED <<processVars, compileVars, cliVars>>

ClientNext == ClientInitialize \/ ClientCompile \/ ClientShutdown


(***************************************************************************)
(* Text the writers produce: operator<< of an int, and the lines of the    *)
(* two log files.  A line is a sequence of fragments.                      *)
(***************************************************************************)
DigitChars == <<"0", "1", "2", "3", "4", "5", "6", "7", "8", "9">>

RECURSIVE DecimalText(_)
DecimalText(n) ==
    IF n < 0 THEN <<"-">> \o DecimalText(0 - n)
    ELSE IF n < 10 THEN <<DigitChars[n + 1]>>
    ELSE DecimalText(n \div 10) \o <<DigitChars[(n % 10) + 1]>>

\* the values an int that was never assigned may be read as
IndeterminateInts == {-1, 0, 5}

\* lines 123 and 141: the severity word of the two log files
LogSeverity(d) == IF d.severity = "Error" THEN <<"ERROR">> ELSE <<"WARNING">>

\* FormattedLine writing the line number whatever it is
FormattedLine_AlwaysLine(d) ==
    IF d.procName # EmptyStr
    THEN LogSeverity(d) \o <<"(">> \o d.procName \o <<", ">>
         \o DecimalText(d.line) \o <<"): ">> \o d.message
    ELSE LogSeverity(d) \o <<"(">> \o DecimalText(d.line) \o <<"): ">> \o d.message

\* lines 143-152: one line of compileErrorsFormatted.txt
FormattedLine(d) ==
    IF d.procName # EmptyStr /\ d.line > 0
    THEN LogSeverity(d) \o <<"(">> \o d.procName \o <<", ">>
         \o DecimalText(d.line) \o <<"): ">> \o d.message
    ELSE IF d.procName # EmptyStr
    THEN LogSeverity(d) \o <<"(">> \o d.procName \o <<"): ">> \o d.message
    ELSE IF d.line > 0
    THEN LogSeverity(d) \o <<"(">> \o DecimalText(d.line) \o <<"): ">> \o d.message
    ELSE LogSeverity(d) \o <<": ">> \o d.message

\* lines 140-153
FormattedLog(res) ==
    [i \in 1..Len(res.diagnostics) |-> FormattedLine(res.diagnostics[i])]

\* lines 123-127: the record of one diagnostic in compileErrors.txt
DetailedRecord(d) ==
    << LogSeverity(d) \o <<" at line ">> \o DecimalText(d.line)
           \o <<", column ">> \o DecimalText(d.column) \o <<":">>,
       <<"  ">> \o d.message,
       <<"  Location: ">> \o d.file,
       EmptyStr >>

RECURSIVE DetailedRecords(_)
DetailedRecords(diags) ==
    IF diags = <<>> THEN <<>>
    ELSE DetailedRecord(Head(diags)) \o DetailedRecords(Tail(diags))

\* lines 114-128; the build's __DATE__ and __TIME__ are one fragment
DetailedLog(res, input) ==
    << <<"CSPro Compilation Errors/Warnings">>,
       <<"==================================">>,
       <<"File: ">> \o input,
       <<"Date: ">> \o <<"__DATE__ __TIME__">>,
       <<"Total Errors: ">> \o DecimalText(res.errorCount),
       <<"Total Warnings: ">> \o DecimalText(res.warningCount),
       EmptyStr >>
    \o DetailedRecords(res.diagnostics)

N_compileErrors          == <<"compileErrors.txt">>
N_compileErrorsFormatted == <<"compileErrorsFormatted.txt">>

\* lines 107-109: entPath.parent_path() / name
LogPath(input, name) == PathJoin(PathParent(input), name)

\* std::ofstream(path) can open the file only in a directory that exists
CanOpen(dir, path) == DirExists(dir, PathParent(path))

(***************************************************************************)
(* The report writers, outputJson and outputText.                          *)
(***************************************************************************)
\* lines 192 and 226: the severity word of the two reports
ReportSeverity(d) == IF d.severity = "Error" THEN <<"error">> ELSE <<"warning">>

\* lines 193-201: the lines of one entry of "errors"; the clock is not
\* modelled, so neither is the compilationTime member
JsonEntry(d, last) ==
    << <<"    {">>,
       <<"      \"file\": \"">> \o d.file \o <<"\",">>,
       <<"      \"line\": ">> \o DecimalText(d.line) \o <<",">>,
       <<"      \"column\": ">> \o DecimalText(d.column) \o <<",">>,
       <<"      \"message\": \"">> \o d.message \o <<"\",">>,
       <<"      \"severity\": \"">> \o ReportSeverity(d) \o <<"\"">>,
       IF last THEN <<"    }">> ELSE <<"    }", ",">> >>

RECURSIVE JsonEntries(_)
JsonEntries(diags) ==
    IF diags = <<>> THEN <<>>
    ELSE JsonEntry(Head(diags), Len(diags) = 1) \o JsonEntries(Tail(diags))

\* lines 185-205
OutputJson(res) ==
    << <<"{">>,
       <<"  \"success\": ">> \o (IF res.success THEN <<"true">> ELSE <<"false">>)
           \o <<",">>,
       <<"  \"errors\": [">> >>
    \o JsonEntries(res.diagnostics)
    \o << <<"  ]">>, <<"}">> >>

\* line 227-228
TextLine(d) ==
    d.file \o <<"(">> \o DecimalText(d.line) \o <<",">> \o DecimalText(d.column)
    \o <<"): ">> \o ReportSeverity(d) \o <<": ">> \o d.message

\* lines 213-230; the elapsed time of verbose mode is not modelled
OutputText(res) ==
    IF res.success
    THEN << <<"Compilation successful!">> >>
    ELSE << <<"Compilation failed with ">> \o DecimalText(res.errorCount)
                \o <<" error(s)">>
                \o (IF res.warningCount > 0
                    THEN <<" and ">> \o DecimalText(res.warningCount)
                         \o <<" warning(s)">>
                    ELSE EmptyStr)
                \o <<":">> >>
         \o [i \in 1..Len(res.diagnostics) |-> TextLine(res.diagnostics[i])]

NoReport == [kind |-> "none", dest |-> EmptyStr, lines |-> <<>>]


(***************************************************************************)
(* main(): the argument loop, lines 260-293.                               *)
(***************************************************************************)
Parsing == pc = "args" /\ argv # <<>>

Exit(code, cause) == pc' = "done" /\ exitCode' = code /\ exitCause' = cause

Running == UNCHANGED <<exitCode, exitCause>>

\* lines 252-255
MainNoArguments ==
    /\ pc = "main"
    /\ Len(argv) = 0
    /\ usagePrinted' = TRUE
    /\ Exit(1, "usage")
    /\ UNCHANGED <<argv, helpGiven, inputFile, outputFile, verboseMode, checkOnly,
                   jsonOutput, cliResult, logs, report>>
    /\ UNCHANGED <<processVars, engineVars, compileVars, engineCalls>>

\* line 257: the CSProCommandLineCompiler is constructed
MainConstruct ==
    /\ pc = "main"
    /\ Len(argv) >= 1
    /\ verboseMode' = FALSE
    /\ checkOnly' = FALSE
    /\ jsonOutput' = FALSE
    /\ pc' = "args"
    /\ UNCHANGED <<argv, helpGiven, inputFile, outputFile, cliResult, logs,
                   report, usagePrinted, exitCode, exitCause>>
    /\ UNCHANGED <<processVars, engineVars, compileVars, engineCalls>>

\* lines 263-266
ArgHelp ==
    /\ Parsing
    /\ Head(argv) = S_h \/ Head(argv) = S_help
    /\ usagePrinted' = TRUE
    /\ Exit(0, "help")
    /\ UNCHANGED <<argv, helpGiven, inputFile, outputFile, verboseMode, checkOnly,
                   jsonOutput, cliResult, logs, report>>
    /\ UNCHANGED <<processVars, engineVars, compileVars, engineCalls>>

\* lines 267-269
ArgVerbose ==
    /\ Parsing
    /\ Head(argv) = S_v
    /\ verboseMode' = TRUE
    /\ argv' = Tail(argv)
    /\ UNCHANGED <<pc, helpGiven, inputFile, outputFile, checkOnly, jsonOutput,
                   cliResult, logs, report, usagePrinted, exitCode,
                   exitCause>>
    /\ UNCHANGED <<processVars, engineVars, compileVars, engineCalls>>

\* lines 270-272
ArgCheckOnly ==
    /\ Parsing
    /\ Head(argv) = S_checkOnly
    /\ checkOnly' = TRUE
    /\ argv' = Tail(argv)
    /\ UNCHANGED <<pc, helpGiven, inputFile, outputFile, verboseMode, jsonOutput,
                   cliResult, logs, report, usagePrinted, exitCode,
                   exitCause>>
    /\ UNCHANGED <<processVars, engineVars, compileVars, engineCalls>>

\* lines 273-275
ArgJson ==
    /\ Parsing
    /\ Head(argv) = S_json
    /\ jsonOutput' = TRUE
    /\ argv' = Tail(argv)
    /\ UNCHANGED <<pc, helpGiven, inputFile, outputFile, verboseMode, checkOnly,
                   cliResult, logs, report, usagePrinted, exitCode,
                   exitCause>>
    /\ UNCHANGED <<processVars, engineVars, compileVars, engineCalls>>

\* lines 276-278: -o takes the next argument, whatever it is
ArgOutput ==
    /\ Parsing
    /\ Head(argv) = S_o
    /\ Len(argv) >= 2
    /\ outputFile' = argv[2]
    /\ argv' = Tail(Tail(argv))
    /\ UNCHANGED <<pc, helpGiven, inputFile, verboseMode, checkOnly, jsonOutput,
                   cliResult, logs, report, usagePrinted, exitCode,
                   exitCause>>
    /\ UNCHANGED <<processVars, engineVars, compileVars, engineCalls>>

\* lines 279-282
ArgOutputMissing ==
    /\ Parsing
    /\ Head(argv) = S_o
    /\ Len(argv) < 2
    /\ Exit(1, "usage")
    /\ UNCHANGED <<argv, helpGiven, inputFile, outputFile, verboseMode, checkOnly,
                   jsonOutput, cliResult, logs, report, usagePrinted>>
    /\ UNCHANGED <<processVars, engineVars, compileVars, engineCalls>>

KnownOptions == {S_h, S_help, S_v, S_checkOnly, S_json, S_o}

\* arg[0] of a std::string: the first character, or the terminator
FirstChar(arg) == IF arg = EmptyStr THEN "\\0" ELSE arg[1]

\* lines 284-287
ArgInput ==
    /\ Parsing
    /\ Head(argv) \notin KnownOptions
    /\ FirstChar(Head(argv)) # "-"
    /\ inputFile' = Head(argv)
    /\ argv' = Tail(argv)
    /\ UNCHANGED <<pc, helpGiven, outputFile, verboseMode, checkOnly, jsonOutput,
                   cliResult, logs, report, usagePrinted, exitCode,
                   exitCause>>
    /\ UNCHANGED <<processVars, engineVars, compileVars, engineCalls>>

\* lines 288-292
ArgUnknown ==
    /\ Parsing
    /\ Head(argv) \notin KnownOptions
    /\ FirstChar(Head(argv)) = "-"
    /\ usagePrinted' = TRUE
    /\ Exit(1, "usage")
    /\ UNCHANGED <<argv, helpGiven, inputFile, outputFile, verboseMode, checkOnly,
                   jsonOutput, cliResult, logs, report>>
    /\ UNCHANGED <<processVars, engineVars, compileVars, engineCalls>>

\* the loop ends, line 293
ArgsDone ==
    /\ pc = "args"
    /\ argv = <<>>
    /\ pc' = "validate"
    /\ UNCHANGED <<argv, helpGiven, inputFile, outputFile, verboseMode, checkOnly,
                   jsonOutput, cliResult, logs, report, usagePrinted, exitCode,
                   exitCause>>
    /\ UNCHANGED <<processVars, engineVars, compileVars, engineCalls>>

(***************************************************************************)
(* validateInputFile, lines 55-68, and its call, lines 296-298.            *)
(***************************************************************************)
InputExtensions == {S_ent, S_bch, S_pff}


\* ValidateInputFile without the test of the extension
ValidateInputFile_AnyExtension(dir, file) == FileExists(dir, file)

ValidateInputFile(dir, file) ==
    /\ FileExists(dir, file)
    /\ PathExtension(file) \in InputExtensions

MainValidate ==
    /\ pc = "validate"
    /\ IF ValidateInputFile(cwd, inputFile)
       THEN pc' = "compile" /\ Running
       ELSE Exit(1, "validation")
    /\ UNCHANGED <<argv, helpGiven, inputFile, outputFile, verboseMode, checkOnly,
                   jsonOutput, cliResult, logs, report, usagePrinted>>
    /\ UNCHANGED <<processVars, engineVars, compileVars, engineCalls>>

\* std::filesystem::exists throws on an operating-system error; main's
\* catch clauses, lines 305-312
MainValidateThrows ==
    /\ pc = "validate"
    /\ Exit(1, "exception")
    /\ UNCHANGED <<argv, helpGiven, inputFile, outputFile, verboseMode, checkOnly,
                   jsonOutput, cliResult, logs, report, usagePrinted>>
    /\ UNCHANGED <<processVars, engineVars, compileVars, engineCalls>>


(***************************************************************************)
(* CSProCommandLineCompiler::compile, lines 70-164.                        *)
(***************************************************************************)
\* lines 82-90: the result built when initialize() fails; msg is declared
\* without an initializer, so its line and column are never assigned
CliInitFailResult(line, column) ==
    [NewCompilationResult EXCEPT
        !.success = FALSE,
        !.diagnostics = <<DiagnosticMessage(EmptyStr, line, column,
                              T_FailedInitCompiler, EmptyStr, "Error")>>,
        !.errorCount = 1]

\* line 79
CliCreateEngine ==
    /\ pc = "compile"
    /\ engineCalls' = Append(engineCalls, EngineCall("create", TRUE))
    /\ pc' = "initialize"
    /\ UNCHANGED <<argv, helpGiven, inputFile, outputFile, verboseMode, checkOnly,
                   jsonOutput, cliResult, logs, report, usagePrinted, exitCode,
                   exitCause>>
    /\ UNCHANGED <<processVars, engineVars, compileVars>>

\* line 81, initialize() succeeds
CliInitialize ==
    /\ pc = "initialize"
    /\ Initialize(TRUE)
    /\ engineCalls' = Append(engineCalls, EngineCall("initialize", TRUE))
    /\ pc' = "callcompile"
    /\ UNCHANGED <<argv, helpGiven, inputFile, outputFile, verboseMode, checkOnly,
                   jsonOutput, cliResult, logs, report, usagePrinted, exitCode,
                   exitCause>>
    /\ UNCHANGED <<cwd, sdk, m_application, m_compiler, compileVars>>

\* lines 81-91, initialize() fails: the result is returned at once
CliInitializeFails ==
    /\ pc = "initialize"
    /\ Initialize(FALSE)
    /\ engineCalls' = Append(engineCalls, EngineCall("initialize", FALSE))
    /\ \E line \in IndeterminateInts, column \in IndeterminateInts :
          cliResult' = CliInitFailResult(line, column)
    /\ pc' = "output"
    /\ UNCHANGED <<argv, helpGiven, inputFile, outputFile, verboseMode, checkOnly,
                   jsonOutput, logs, report, usagePrinted, exitCode, exitCause>>
    /\ UNCHANGED <<cwd, sdk, m_application, m_compiler, compileVars>>

\* the call of compile in a loop that does not end
CliCallCompile_Repeats ==
    /\ pc = "callcompile"
    /\ EnterCompile(inputFile)
    /\ engineCalls' = Append(engineCalls, EngineCall("compile", TRUE))
    /\ UNCHANGED pc
    /\ UNCHANGED <<argv, helpGiven, inputFile, outputFile, verboseMode, checkOnly,
                   jsonOutput, cliResult, logs, report, usagePrinted, exitCode,
                   exitCause>>
    /\ UNCHANGED <<processVars, engineVars>>

\* lines 94-100: the call of engine->compile(options)
CliCallCompile ==
    /\ pc = "callcompile"
    /\ EnterCompile(inputFile)
    /\ engineCalls' = Append(engineCalls, EngineCall("compile", TRUE))
    /\ pc' = "compiling"
    /\ UNCHANGED <<argv, helpGiven, inputFile, outputFile, verboseMode, checkOnly,
                   jsonOutput, cliResult, logs, report, usagePrinted, exitCode,
                   exitCause>>
    /\ UNCHANGED <<processVars, engineVars>>

\* compile has returned and the engine is left as it is
CliShutdown_Forgotten ==
    /\ pc = "compiling"
    /\ cpc = "returned"
    /\ cliResult' = result
    /\ pc' = "logs"
    /\ UNCHANGED <<argv, helpGiven, inputFile, outputFile, verboseMode, checkOnly,
                   jsonOutput, logs, report, usagePrinted, exitCode, exitCause>>
    /\ UNCHANGED <<processVars, compileVars, engineVars, engineCalls>>

\* lines 100-103: compile has returned; engine->shutdown()
CliShutdown ==
    /\ pc = "compiling"
    /\ cpc = "returned"
    /\ cliResult' = result
    /\ Shutdown
    /\ engineCalls' = Append(engineCalls, EngineCall("shutdown", TRUE))
    /\ pc' = "logs"
    /\ UNCHANGED <<argv, helpGiven, inputFile, outputFile, verboseMode, checkOnly,
                   jsonOutput, logs, report, usagePrinted, exitCode, exitCause>>
    /\ UNCHANGED <<processVars, compileVars>>


\* WritesLogs without the test of line 106
WritesLogs_Always(res) == TRUE

\* line 106: whether the two log files are written
WritesLogs(res) == res.diagnostics # <<>>

\* line 106, nothing to save
CliNoLogs ==
    /\ pc = "logs"
    /\ ~WritesLogs(cliResult)
    /\ pc' = "output"
    /\ UNCHANGED <<argv, helpGiven, inputFile, outputFile, verboseMode, checkOnly,
                   jsonOutput, cliResult, logs, report, usagePrinted, exitCode,
                   exitCause>>
    /\ UNCHANGED <<processVars, engineVars, compileVars, engineCalls>>

\* lines 106-135: compileErrors.txt; a file that cannot be opened is skipped
CliDetailedLog ==
    /\ pc = "logs"
    /\ WritesLogs(cliResult)
    /\ LET path == LogPath(inputFile, N_compileErrors)
       IN  \/ /\ CanOpen(cwd, path)
              /\ logs' = [logs EXCEPT !.detailedInvoked = TRUE,
                                      !.detailedWritten = TRUE,
                                      !.detailedPath = PathJoin(cwd, path),
                                      !.detailed = DetailedLog(cliResult, inputFile)]
           \/ logs' = [logs EXCEPT !.detailedInvoked = TRUE]
    /\ pc' = "logs2"
    /\ UNCHANGED <<argv, helpGiven, inputFile, outputFile, verboseMode, checkOnly,
                   jsonOutput, cliResult, report, usagePrinted, exitCode,
                   exitCause>>
    /\ UNCHANGED <<processVars, engineVars, compileVars, engineCalls>>

\* lines 137-160: compileErrorsFormatted.txt
CliFormattedLog ==
    /\ pc = "logs2"
    /\ LET path == LogPath(inputFile, N_compileErrorsFormatted)
       IN  \/ /\ CanOpen(cwd, path)
              /\ logs' = [logs EXCEPT !.formattedInvoked = TRUE,
                                      !.formattedWritten = TRUE,
                                      !.formattedPath = PathJoin(cwd, path),
                                      !.formatted = FormattedLog(cliResult)]
           \/ logs' = [logs EXCEPT !.formattedInvoked = TRUE]
    /\ pc' = "output"
    /\ UNCHANGED <<argv, helpGiven, inputFile, outputFile, verboseMode, checkOnly,
                   jsonOutput, cliResult, report, usagePrinted, exitCode,
                   exitCause>>
    /\ UNCHANGED <<processVars, engineVars, compileVars, engineCalls>>

(***************************************************************************)
(* outputResults, lines 167-173, and the return of main, lines 300-303.    *)
(***************************************************************************)

\* ExitStatus decided by the error count instead of the success flag
ExitStatus_ByErrorCount(res) == IF res.errorCount = 0 THEN 0 ELSE 1

\* line 303
ExitStatus(res) == IF res.success THEN 0 ELSE 1

\* lines 167-173
OutputResults(res) ==
    IF jsonOutput
    THEN [kind |-> "json", dest |-> outputFile, lines |-> OutputJson(res)]
    ELSE [kind |-> "text", dest |-> EmptyStr, lines |-> OutputText(res)]

MainOutputAndReturn ==
    /\ pc = "output"
    /\ report' = OutputResults(cliResult)
    /\ Exit(ExitStatus(cliResult), "compiled")
    /\ UNCHANGED <<argv, helpGiven, inputFile, outputFile, verboseMode, checkOnly,
                   jsonOutput, cliResult, logs, usagePrinted>>
    /\ UNCHANGED <<processVars, engineVars, compileVars, engineCalls>>

MainNext ==
    \/ MainNoArguments
    \/ MainConstruct
    \/ ArgHelp
    \/ ArgVerbose
    \/ ArgCheckOnly
    \/ ArgJson
    \/ ArgOutput
    \/ ArgOutputMissing
    \/ ArgInput
    \/ ArgUnknown
    \/ ArgsDone
    \/ MainValidate
    \/ MainValidateThrows
    \/ CliCreateEngine
    \/ CliInitialize
    \/ CliInitializeFails
    \/ CliCallCompile
    \/ CliShutdown
    \/ CliNoLogs
    \/ CliDetailedLog
    \/ CliFormattedLog
    \/ MainOutputAndReturn

(***************************************************************************)
(* The two specifications.                                                 *)
(***************************************************************************)
InitCommon ==
    /\ cwd = StartDir
    /\ sdk \in BOOLEAN
    /\ bootCalls = NoBootCalls
    /\ m_initialized = FALSE
    /\ m_application = FALSE
    /\ m_compiler = FALSE
    /\ cpc = "idle"
    /\ options = [inputFile |-> EmptyStr]
    /\ originalCwd = EmptyStr
    /\ appDir = EmptyStr
    /\ session = <<>>
    /\ result = NewCompilationResult
    /\ call = NoCall
    /\ engineCalls = <<>>
    /\ inputFile = EmptyStr
    /\ outputFile = EmptyStr
    /\ verboseMode = FALSE
    /\ checkOnly = FALSE
    /\ jsonOutput = FALSE
    /\ cliResult = NewCompilationResult
    /\ logs = NoLogs
    /\ report = NoReport
    /\ usagePrinted = FALSE
    /\ exitCode = 0
    /\ exitCause = "none"

\* a process started with argv[1..]
Init ==
    /\ InitCommon
    /\ pc = "main"
    /\ argv \in SeqUpTo(ArgWords, MaxArgs)
    /\ helpGiven = (\E i \in 1..Len(argv) : argv[i] \in {S_h, S_help})

Next == MainNext \/ CompileNext

Spec == Init /\ [][Next]_vars

\* a client holding a fresh engine
EngineInit ==
    /\ InitCommon
    /\ pc = "client"
    /\ argv = <<>>
    /\ helpGiven = FALSE

EngineNext == ClientNext \/ CompileNext \/ CompileInitializes \/ CompileInitFails

EngineSpec == EngineInit /\ [][EngineNext]_vars


(***************************************************************************)
(* The JSON renderer on its own: outputResults applied to any result with  *)
(* --json given.                                                           *)
(***************************************************************************)
\* Diagnostics of the three severities of the struct; a message that quotes
\* a word, and a file named as Windows names it.
RenderDiagnostics ==
    { DiagnosticMessage(P_dAEnt, 5, 3, <<"bad token">>, <<"INPUT">>, "Error"),
      DiagnosticMessage(P_dAEnt, 0, 0, <<"old call">>, EmptyStr, "Warning"),
      DiagnosticMessage(P_dAEnt, 7, 1, <<"note">>, EmptyStr, "Info"),
      DiagnosticMessage(P_dAEnt, 5, 3, <<"expected ", "\"", "end", "\"">>,
                        EmptyStr, "Error"),
      DiagnosticMessage(<<"C:", "\\", "a.ent">>, 0, 0, <<"bad token">>,
                        EmptyStr, "Warning") }

\* results whose counts are those of their diagnostics
RenderResults ==
    { [success |-> CountSeverity(ds, "Error") = 0,
       errorCount |-> CountSeverity(ds, "Error"),
       warningCount |-> CountSeverity(ds, "Warning"),
       diagnostics |-> ds,
       compiledOutput |-> EmptyStr] : ds \in SeqUpTo(RenderDiagnostics, MaxMsgs) }

\* main() at line 300, holding any result, --json given
RenderInit ==
    /\ cwd = StartDir
    /\ sdk \in BOOLEAN
    /\ bootCalls = NoBootCalls
    /\ m_initialized = FALSE
    /\ m_application = FALSE
    /\ m_compiler = FALSE
    /\ cpc = "idle"
    /\ options = [inputFile |-> EmptyStr]
    /\ originalCwd = EmptyStr
    /\ appDir = EmptyStr
    /\ session = <<>>
    /\ result = NewCompilationResult
    /\ call = NoCall
    /\ engineCalls = <<>>
    /\ pc = "output"
    /\ argv = <<>>
    /\ helpGiven = FALSE
    /\ inputFile = P_dAEnt
    /\ outputFile \in {EmptyStr, P_nTxt}
    /\ verboseMode = FALSE
    /\ checkOnly = FALSE
    /\ jsonOutput = TRUE
    /\ cliResult \in RenderResults
    /\ logs = NoLogs
    /\ report = NoReport
    /\ usagePrinted = FALSE
    /\ exitCode = 0
    /\ exitCause = "none"

RenderNext == MainOutputAndReturn

RenderSpec == RenderInit /\ [][RenderNext]_vars

(***************************************************************************)
(* Properties.                                                             *)
(***************************************************************************)
Returned == cpc = "returned"

Diagnostics == result.diagnostics

CompileCalled == \E i \in 1..Len(engineCalls) : engineCalls[i].op = "compile"

\* C1: every result compile returns has errorCount equal to the number of
\* its Error diagnostics and warningCount equal to the number of its Warning
\* diagnostics.  The code increments the counts only in the drain loop: the
\* diagnostics of an initialization failure, a load failure and a caught
\* exception are not counted.
C1_CountsMatchDiagnostics ==
    Returned =>
        /\ result.errorCount = CountSeverity(Diagnostics, "Error")
        /\ result.warningCount = CountSeverity(Diagnostics, "Warning")

\* C2: when compile has returned, on any path, the working directory is the
\* one compile was entered with.  The code restores it at line 143 only,
\* which an exception thrown by Application::Open skips.
C2_CwdRestoredOnReturn == Returned => cwd = call.cwdAtEntry

\* C3: every result compile returns has success true exactly when none of
\* its diagnostics has severity Error.
C3_SuccessIffNoErrorDiagnostic ==
    Returned => (result.success <=> CountSeverity(Diagnostics, "Error") = 0)

\* a compile that returned success with warnings, and nothing else, drained
C3_Witness ==
    /\ Returned
    /\ result.success
    /\ call.exit = "normal"
    /\ Len(Diagnostics) = MaxMsgs

\* C4: every result compile returns has success true exactly when its
\* errorCount is 0.  Every failure path outside the drain loop returns
\* success = false with errorCount still 0 (see C1).
C4_SuccessIffErrorCountZero ==
    Returned => (result.success <=> result.errorCount = 0)

\* C5: an exception thrown by any step of compile after the initialization
\* check is caught: compile returns, with success false and exactly one
\* synthetic Error diagnostic, which carries the failure's description and
\* follows the diagnostics of the messages drained before the failure (none,
\* unless the drain loop itself threw).
C5_FailureBecomesOneDiagnostic ==
    call.thrown # NoException =>
        /\ Returned
        /\ call.exit = "exception"
        /\ ~result.success
        /\ Len(Diagnostics) >= 1
        /\ call.thrownAt # "drain" => Len(Diagnostics) = 1
        /\ \A i \in 1..(Len(Diagnostics) - 1) :
              Diagnostics[i] = Translate(session[i], options.inputFile)
        /\ LET d == Diagnostics[Len(Diagnostics)]
           IN  /\ d.severity = "Error"
               /\ d.line = 0 /\ d.column = 0
               /\ call.thrown.kind = "std" =>
                     d.message = T_ExceptionPrefix \o call.thrown.what
               /\ call.thrown.kind = "other" => d.message = T_UnknownException

\* the drain loop threw something that is no std::exception after a message
C5_Witness ==
    /\ Returned
    /\ call.thrownAt = "drain"
    /\ call.thrown.kind = "other"
    /\ Len(Diagnostics) >= 2

\* C6: a run of main() that obtained a result with diagnostics has invoked
\* both log writers.  CSProCommandLineCompiler::compile returns the result
\* it builds when initialize() fails before it reaches the writers.
C6_LogsWheneverDiagnostics ==
    (pc = "done" /\ exitCause = "compiled" /\ cliResult.diagnostics # <<>>) =>
        logs.detailedInvoked /\ logs.formattedInvoked

\* C7: as long as the result main() holds has no diagnostics, neither log
\* writer has run and neither log file has been written.
C7_NoLogsWithoutDiagnostics ==
    cliResult.diagnostics = <<>> => logs = NoLogs

\* a run that compiled without a diagnostic and ended
C7_Witness ==
    /\ pc = "done"
    /\ exitCause = "compiled"
    /\ CompileCalled
    /\ cliResult.diagnostics = <<>>
    /\ logs = NoLogs

\* C8: the exit code is 0 or 1; it is 0 exactly when help was requested or
\* a compilation ran and returned success.
C8_ExitCode ==
    pc = "done" =>
        /\ exitCode \in {0, 1}
        /\ exitCode = 0 <=>
              \/ exitCause = "help"
              \/ exitCause = "compiled" /\ CompileCalled /\ cliResult.success

\* a run that compiled with warnings only and exited 0
C8_Witness ==
    /\ pc = "done"
    /\ exitCode = 0
    /\ CompileCalled
    /\ cliResult.warningCount > 0

\* C9: whenever -h or --help is among the arguments, wherever it stands, the
\* process prints the usage and exits 0.  The loop of main() returns at the
\* first unknown option or unfinished -o it meets, and -o takes the next
\* argument as its file name even when it is -h.
C9_HelpAnywhereExitsZero ==
    (pc = "done" /\ helpGiven) => (exitCode = 0 /\ usagePrinted)

\* the input file main() holds would not pass validation
InvalidInput ==
    \/ PathJoin(StartDir, inputFile) \notin AbsoluteFiles
    \/ PathExtension(inputFile) \notin {S_ent, S_bch, S_pff}

\* C10: a usage error ends the process with exit code 1 and without engine
\* contact: the engine is created and called only for an input file that
\* exists and has one of the three extensions, and a run that ends on a bad
\* argument or a rejected input file has made no engine call, entered no
\* compile and written no log.
C10_UsageErrorBeforeEngine ==
    /\ engineCalls # <<>> => ~InvalidInput
    /\ (pc = "done" /\ exitCause \in {"usage", "validation"}) =>
          /\ exitCode = 1
          /\ engineCalls = <<>>
          /\ cpc = "idle"
          /\ ~m_initialized
          /\ logs = NoLogs
    /\ (pc = "done" /\ InvalidInput) => exitCause # "compiled"

\* an existing file with the extension .txt was rejected
C10_Witness ==
    /\ pc = "done"
    /\ exitCause = "validation"
    /\ inputFile = P_nTxt
    /\ exitCode = 1

(***************************************************************************)
(* Properties of the engine's life cycle.                                  *)
(***************************************************************************)
LastCall == engineCalls[Len(engineCalls)]

\* The step is a client's call of op returning.
CallStep(op) ==
    /\ Len(engineCalls') = Len(engineCalls) + 1
    /\ engineCalls'[Len(engineCalls')].op = op

CallRet == engineCalls'[Len(engineCalls')].ret

\* The call before the one this step makes was an initialize of the client.
AfterInitialize ==
    /\ engineCalls # <<>>
    /\ LastCall.op = "initialize"

\* C11: initialize called on an Initialized engine returns true and does
\* nothing (no runtime bootstrap, no message-catalog load, no other
\* process-wide call), and a second initialize right after a first gives the
\* outcome and the engine state the first gave (the runtime bootstrap
\* doing on the second call what it did on the first).
C11_InitializeIsNoOp ==
    [][CallStep("initialize") =>
         /\ m_initialized =>
              /\ CallRet = TRUE
              /\ UNCHANGED <<engineVars, processVars>>
         /\ (AfterInitialize /\ LastCall.ret = TRUE) =>
              /\ CallRet = TRUE
              /\ UNCHANGED engineVars
         /\ (AfterInitialize /\ LastCall.ret = FALSE /\ CallRet = FALSE) =>
              UNCHANGED engineVars]_vars

\* The step is compile's own call of initialize().
InternalInitialize ==
    /\ cpc = "enter"
    /\ call'.steps = <<"initialize">>

\* The step is one on which compile returns.
CompileReturns ==
    /\ cpc # "returned"
    /\ cpc' = "returned"

\* The initialization state changes only from Uninitialized to Initialized
\* on an initialize that succeeds, and from Initialized to Uninitialized on
\* shutdown.
OnlyLifeCycleTransitions ==
    m_initialized' # m_initialized =>
        \/ /\ ~m_initialized
           /\ \/ CallStep("initialize") /\ CallRet = TRUE
              \/ InternalInitialize
        \/ /\ m_initialized
           /\ CallStep("shutdown")

\* C12 as stated: the initialization state changes only on a successful
\* initialize and on shutdown, and on every return path of compile the
\* state when compile returns is the state it was called in.
C12_CompileKeepsInitState ==
    [][/\ OnlyLifeCycleTransitions
       /\ CompileReturns => m_initialized' = call.initAtEntry]_vars

\* C12 amended: the initialization state changes only on a successful
\* initialize, the one compile makes on an Uninitialized engine included,
\* and on shutdown; a successful initialize leaves the engine Initialized
\* and shutdown leaves it Uninitialized.  compile called on an Initialized
\* engine leaves it Initialized on every return path; called on an
\* Uninitialized engine it leaves it Initialized on every return path but
\* the one of a failed initialization, where it leaves it Uninitialized.
C12_CompileInitializesLazily ==
    [][/\ OnlyLifeCycleTransitions
       /\ (CallStep("initialize") /\ CallRet = TRUE) => m_initialized'
       /\ CallStep("shutdown") => ~m_initialized'
       /\ CompileReturns =>
            /\ call.initAtEntry => m_initialized'
            /\ m_initialized' = (call'.exit # "initfail")]_vars

\* compile was called on an Uninitialized engine, ran to its normal end and
\* left the engine Initialized.
C12_Witness ==
    /\ Returned
    /\ LastCall.op = "compile"
    /\ ~call.initAtEntry
    /\ call.exit = "normal"
    /\ m_initialized

\* The engine as its constructor leaves it (CompilerInterface.cpp:51).
FreshEngine ==
    /\ ~m_initialized
    /\ ~m_application
    /\ ~m_compiler

\* C13: shutdown can be called in every state of the engine, and when it
\* has returned the Application and the compiler session are released and
\* the engine is Uninitialized, the state of a fresh engine, from which a
\* later initialize or compile starts.
C13_ShutdownAlwaysSafe ==
    /\ (ClientReady => ENABLED ClientShutdown)
    /\ (/\ engineCalls # <<>>
        /\ LastCall.op = "shutdown") => FreshEngine
    /\ \A i \in 1..Len(engineCalls) - 1 :
          (/\ engineCalls[i].op = "shutdown"
           /\ engineCalls[i + 1].op = "compile"
           /\ i + 1 = Len(engineCalls)) => ~call.initAtEntry

\* shutdown called on an engine that holds an Application and a compiler
\* session of a compile that ran to its end.
C13_Witness ==
    /\ Len(engineCalls) = 2
    /\ engineCalls[1].op = "compile"
    /\ engineCalls[2].op = "shutdown"
    /\ call.exit = "normal"
    /\ "fullcompile" \in {call.steps[i] : i \in 1..Len(call.steps)}
    /\ FreshEngine

(***************************************************************************)
(* Properties of a run of main.                                            *)
(***************************************************************************)
RunOrder == <<"create", "initialize", "compile", "shutdown">>

LogsInvoked == logs.detailedInvoked \/ logs.formattedInvoked

\* The run went through its steps in order so far: the engine is acquired,
\* initialized, asked to compile and shut down, each at most once; the log
\* files come after compile has returned; the report is the last thing
\* before the exit status, and a run that got its engine and ended has
\* rendered one.
StepsInOrder ==
    /\ Len(engineCalls) <= Len(RunOrder)
    /\ \A i \in 1..Len(engineCalls) : engineCalls[i].op = RunOrder[i]
    /\ pc \in {"initialize", "callcompile", "compiling", "logs", "logs2",
               "output"} => (engineCalls # <<>> /\ exitCause = "none")
    /\ LogsInvoked =>
          /\ Len(engineCalls) = 4
          /\ Returned
          /\ pc \in {"logs2", "output", "done"}
    /\ report # NoReport =>
          /\ pc = "done"
          /\ exitCause = "compiled"
          /\ engineCalls # <<>>
          /\ logs.detailedInvoked = logs.formattedInvoked
          /\ exitCode \in {0, 1}
    /\ (pc = "done" /\ engineCalls # <<>>) =>
          /\ exitCause = "compiled"
          /\ report # NoReport

\* The writers call nothing of the engine and leave the result alone, and
\* a report is rendered once.
WritersArePure ==
    /\ pc \in {"logs", "logs2", "output"} =>
          UNCHANGED <<engineCalls, engineVars, cwd, bootCalls, cliResult,
                      compileVars>>
    /\ report' # report => (pc = "output" /\ report = NoReport)

\* C14: a run that passed validation acquires the engine, compiles, writes
\* the log files, renders the report and returns the exit status in that
\* order, with compile called at most once and one report rendered; writing
\* the logs and rendering call nothing of the engine and leave the
\* CompilationResult unchanged.
C14_OrchestratorOrder == []StepsInOrder /\ [][WritersArePure]_vars

\* A run that compiled, wrote both log files and rendered the console text.
C14_Witness ==
    /\ pc = "done"
    /\ Len(engineCalls) = Len(RunOrder)
    /\ logs.detailedWritten
    /\ logs.formattedWritten
    /\ report.kind = "text"
    /\ exitCode = 1

\* C15: while compile opens the application, builds it, loads the source
\* and runs the full compile pass, the working directory is the directory
\* that holds the input file; it is switched back only after these steps.
\* (cpc names the step that is about to run.)
C15_CwdIsInputDirWhileCompiling ==
    cpc \in {"open", "build", "load", "fullcompile"} => cwd = DirOf(appDir)

(***************************************************************************)
(* Properties of the paths through compile.                                *)
(***************************************************************************)
StepsRun == {call.steps[i] : i \in 1..Len(call.steps)}

TimesRun(step) == Cardinality({i \in 1..Len(call.steps) : call.steps[i] = step})

\* C16: compile called on an Uninitialized engine attempts initialize once
\* (and not at all on an Initialized one), and goes on only if the engine is
\* then Initialized; if the attempt fails compile has returned, no engine
\* step has run, the working directory is untouched, and the result has
\* success false and the one synthetic Error diagnostic.
C16_InitFailureIsOneDiagnostic ==
    /\ cpc \notin {"idle", "enter"} =>
          TimesRun("initialize") = (IF call.initAtEntry THEN 0 ELSE 1)
    /\ cpc \notin {"idle", "enter", "returned"} => m_initialized
    /\ call.exit = "initfail" =>
          /\ Returned
          /\ ~call.initAtEntry
          /\ call.steps = <<"initialize">>
          /\ cwd = call.cwdAtEntry
          /\ result.success = FALSE
          /\ Diagnostics =
                <<[file |-> EmptyStr, line |-> 0, column |-> 0,
                   message |-> T_FailedInitEngine, procName |-> EmptyStr,
                   severity |-> "Error"]>>

\* compile on an Uninitialized engine of a build with the SDK, the runtime
\* bootstrap failing.
C16_Witness ==
    /\ Returned
    /\ call.exit = "initfail"
    /\ sdk
    /\ bootCalls.AfxWinInit > 0
    /\ LastCall.op = "compile"

\* C17: when loading the source code fails, compile has returned with
\* success false and one Error diagnostic, the one saying so for the input
\* file, and neither the full compile pass nor the drain of its messages
\* has run in that call.
C17_LoadFailureStopsCompile ==
    call.exit = "loadfail" =>
        /\ Returned
        /\ call.steps[Len(call.steps)] = "load"
        /\ "fullcompile" \notin StepsRun
        /\ "drain" \notin StepsRun
        /\ result.success = FALSE
        /\ Diagnostics =
              <<[file |-> options.inputFile, line |-> 0, column |-> 0,
                 message |-> T_FailedLoadSource, procName |-> EmptyStr,
                 severity |-> "Error"]>>

\* The load of b.bch failed on an engine that an earlier call initialized.
C17_Witness ==
    /\ Returned
    /\ call.exit = "loadfail"
    /\ call.initAtEntry
    /\ options.inputFile = P_bBch
    /\ Len(Diagnostics) = 1

(***************************************************************************)
(* Properties of the drain of the parser messages.                         *)
(***************************************************************************)
\* The diagnostics are those of the drain loop alone: the loop is running,
\* or compile returned at its normal end.
Drained == cpc = "drain" \/ (Returned /\ call.exit = "normal")

\* C18: when a full compile pass left n messages and compile drained them
\* without an exception, the result has n diagnostics, the i-th being the
\* translation of the i-th message with its line and column as they were;
\* while the loop runs the diagnostics are those of the messages drained so
\* far.
C18_OneDiagnosticPerMessage ==
    Drained =>
        /\ Len(Diagnostics) <= Len(session)
        /\ Returned => Len(Diagnostics) = Len(session)
        /\ \A i \in 1..Len(Diagnostics) :
              /\ Diagnostics[i] = Translate(session[i], options.inputFile)
              /\ Diagnostics[i].line = session[i].line_number
              /\ Diagnostics[i].column = session[i].position_in_line

\* Two different messages drained, in the order the session holds them.
C18_Witness ==
    /\ Returned
    /\ call.exit = "normal"
    /\ Len(Diagnostics) = 2
    /\ session[1].line_number = 7
    /\ session[2].line_number = 5
    /\ Diagnostics[1].line = 7 /\ Diagnostics[1].column = 1
    /\ Diagnostics[2].line = 5 /\ Diagnostics[2].column = 3

\* C19: a drained message of type Error gives a diagnostic of severity Error
\* and counts as an error; one of type Warning, DeprecationMajor or
\* DeprecationMinor gives a diagnostic of severity Warning and counts as a
\* warning; compile never puts a diagnostic of another severity in a result.
C19_SeverityMapping ==
    /\ \A i \in 1..Len(Diagnostics) :
          Diagnostics[i].severity \in {"Error", "Warning"}
    /\ Drained =>
          LET drained == 1..Len(Diagnostics)
              errors == {i \in drained : session[i].type = "Error"}
              warnings == {i \in drained : session[i].type \in
                              {"Warning", "DeprecationMajor", "DeprecationMinor"}}
          IN  /\ \A i \in errors : Diagnostics[i].severity = "Error"
              /\ \A i \in warnings : Diagnostics[i].severity = "Warning"
              /\ result.errorCount = Cardinality(errors)
              /\ result.warningCount = Cardinality(warnings)

\* A deprecation and an error drained.
C19_Witness ==
    /\ Returned
    /\ call.exit = "normal"
    /\ Len(session) = 2
    /\ session[1].type = "DeprecationMinor"
    /\ session[2].type = "Error"
    /\ Diagnostics[1].severity = "Warning"
    /\ Diagnostics[2].severity = "Error"
    /\ result.errorCount = 1
    /\ result.warningCount = 1

\* C20: the file of a drained diagnostic is the compilation-unit name of its
\* message if that is not empty, else the input file; its procName is the
\* message's procedure name if that is not empty, else the compilation-unit
\* name if that is not empty, else empty.
C20_FileAndProcName ==
    Drained =>
        \A i \in 1..Len(Diagnostics) :
            LET m == session[i]
                d == Diagnostics[i]
            IN  /\ d.file = IF m.compilation_unit_name # EmptyStr
                               THEN m.compilation_unit_name
                               ELSE options.inputFile
                /\ d.procName = IF m.proc_name # EmptyStr
                                   THEN m.proc_name
                                   ELSE IF m.compilation_unit_name # EmptyStr
                                       THEN m.compilation_unit_name
                                       ELSE EmptyStr

(***************************************************************************)
(* Properties of the compiled output.                                      *)
(***************************************************************************)
\* p ends with suffix
EndsWith(p, suffix) ==
    /\ Len(p) >= Len(suffix)
    /\ SubSeq(p, Len(p) - Len(suffix) + 1, Len(p)) = suffix

\* C21: a result whose success is false (initialization failure, load
\* failure, exception, or an Error message drained) has an empty
\* compiledOutput, and a result whose success is true has as compiledOutput
\* the input path with its extension replaced by .pen.
C21_CompiledOutputOnlyOnSuccess ==
    /\ ~result.success => result.compiledOutput = EmptyStr
    /\ result.success =>
          \E ext \in InputExtensions :
             /\ EndsWith(options.inputFile, ext)
             /\ result.compiledOutput =
                   SubSeq(options.inputFile, 1,
                          Len(options.inputFile) - Len(ext)) \o S_pen

\* d/a.ent compiled with one warning and no error.
C21_Witness ==
    /\ Returned
    /\ result.success
    /\ result.warningCount = 1
    /\ options.inputFile = P_dAEnt
    /\ result.compiledOutput = <<"d", "/", "a", ".", "p", "e", "n">>

(***************************************************************************)
(* Properties of the log files and the reports.                            *)
(***************************************************************************)
\* the text a sequence of fragments spells
RECURSIVE FlatText(_)
FlatText(fragments) ==
    IF fragments = <<>> THEN ""
    ELSE Head(fragments) \o FlatText(Tail(fragments))

\* The line of the editor-compatible log the four shapes give for d.
ShapedLine(d) ==
    LET sev  == IF d.severity = "Error" THEN "ERROR" ELSE "WARNING"
        proc == FlatText(d.procName)
        num  == FlatText(DecimalText(d.line))
        msg  == FlatText(d.message)
    IN  IF proc # "" /\ d.line > 0
            THEN sev \o "(" \o proc \o ", " \o num \o "): " \o msg
        ELSE IF proc # ""
            THEN sev \o "(" \o proc \o "): " \o msg
        ELSE IF d.line > 0
            THEN sev \o "(" \o num \o "): " \o msg
        ELSE sev \o ": " \o msg

\* C22: the editor-compatible log, when it is written, has one line per
\* diagnostic in the order of the diagnostics, each of the shape that
\* (procName not empty, line > 0) selects among SEVERITY(proc, line): msg,
\* SEVERITY(proc): msg, SEVERITY(line): msg and SEVERITY: msg, with ERROR for
\* Error and WARNING for Warning; so the Error "bad token" of INPUT at line 5
\* is ERROR(INPUT, 5): bad token and the one with no procName and line 0 is
\* ERROR: bad token.
C22_FormattedLogShapes ==
    logs.formattedWritten =>
        /\ Len(logs.formatted) = Len(cliResult.diagnostics)
        /\ \A i \in 1..Len(cliResult.diagnostics) :
              LET d == cliResult.diagnostics[i]
                  text == FlatText(logs.formatted[i])
              IN  /\ d.severity \in {"Error", "Warning"}
                  /\ text = ShapedLine(d)
                  /\ (/\ d.severity = "Error"
                      /\ d.message = <<"bad token">>
                      /\ d.procName = <<"INPUT">>
                      /\ d.line = 5) => text = "ERROR(INPUT, 5): bad token"
                  /\ (/\ d.severity = "Error"
                      /\ d.message = <<"bad token">>
                      /\ d.procName = EmptyStr
                      /\ d.line = 0) => text = "ERROR: bad token"

\* A log of two lines, the two the claim spells out.
C22_Witness ==
    /\ logs.formattedWritten
    /\ Len(cliResult.diagnostics) = 2
    /\ cliResult.diagnostics[1].procName = <<"INPUT">>
    /\ cliResult.diagnostics[1].line = 5
    /\ cliResult.diagnostics[2].procName = EmptyStr
    /\ cliResult.diagnostics[2].line = 0
    /\ Len(logs.formatted) = 2
    /\ FlatText(logs.formatted[1]) = "ERROR(INPUT, 5): bad token"
    /\ FlatText(logs.formatted[2]) = "ERROR: bad token"

\* A reader of the JSON text.  Inside a string a quotation mark ends the
\* string and a backslash must be followed by one of the characters JSON
\* lets it escape; after the string nothing but the expected closing may
\* stand in the line.
JsonEscapes == {"\"", "\\", "/", "b", "f", "n", "r", "t"}

RECURSIVE ScanString(_, _)
ScanString(fragments, value) ==
    IF fragments = <<>>
        THEN [ok |-> FALSE, value |-> value, rest |-> <<>>]
    ELSE IF Head(fragments) \in {"\"", "\","}
        THEN [ok |-> TRUE, value |-> value, rest |-> fragments]
    ELSE IF Head(fragments) = "\\"
        THEN IF Len(fragments) >= 2 /\ fragments[2] \in JsonEscapes
                THEN ScanString(Tail(Tail(fragments)),
                                Append(value, fragments[2]))
                ELSE [ok |-> FALSE, value |-> value, rest |-> fragments]
    ELSE ScanString(Tail(fragments), Append(value, Head(fragments)))

\* the string member of one line: opening, characters, closing
ParseMember(line, opening, closing) ==
    IF line = <<>> \/ Head(line) # opening
    THEN [ok |-> FALSE, value |-> <<>>]
    ELSE LET s == ScanString(Tail(line), <<>>)
         IN  [ok |-> s.ok /\ s.rest = <<closing>>, value |-> s.value]

\* the seven lines of one entry of "errors"
ParseEntry(lines) ==
    LET file     == ParseMember(lines[2], "      \"file\": \"", "\",")
        message  == ParseMember(lines[5], "      \"message\": \"", "\",")
        severity == ParseMember(lines[6], "      \"severity\": \"", "\"")
    IN  [ok |-> /\ lines[1] = <<"    {">>
                /\ file.ok /\ message.ok /\ severity.ok
                /\ lines[7] \in {<<"    }">>, <<"    }", ",">>},
         file |-> file.value, message |-> message.value,
         severity |-> severity.value]

ParseJson(lines) ==
    LET n == (Len(lines) - 5) \div 7
        entries == [i \in 1..n |->
                       ParseEntry(SubSeq(lines, 7 * i - 3, 7 * i + 3))]
    IN  [ok |-> /\ Len(lines) = 7 * n + 5
                /\ lines[1] = <<"{">>
                /\ lines[Len(lines)] = <<"}">>
                /\ \A i \in 1..n : entries[i].ok,
         entries |-> entries]

\* the severity a severity word of the JSON names
SeverityOfWord(word) ==
    IF word = <<"error">> THEN "Error"
    ELSE IF word = <<"warning">> THEN "Warning"
    ELSE IF word = <<"info">> THEN "Info"
    ELSE "unknown"

\* C23: for any result, of diagnostics of any severity of the model, the
\* JSON that is rendered can be parsed, its errors array has one entry per
\* diagnostic in the order of the diagnostics, the severity word of each
\* entry names the severity of its diagnostic, and the numbers of error and
\* of warning entries are errorCount and warningCount.
C23_JsonRoundTrip ==
    report.kind = "json" =>
        LET doc == ParseJson(report.lines)
            n == Len(cliResult.diagnostics)
        IN  /\ doc.ok
            /\ Len(doc.entries) = n
            /\ \A i \in 1..n :
                  SeverityOfWord(doc.entries[i].severity)
                      = cliResult.diagnostics[i].severity
            /\ Cardinality({i \in 1..n : doc.entries[i].severity = <<"error">>})
                  = cliResult.errorCount
            /\ Cardinality({i \in 1..n : doc.entries[i].severity = <<"warning">>})
                  = cliResult.warningCount

\* how often main() called op on the engine
TimesCalled(op) ==
    Cardinality({i \in 1..Len(engineCalls) : engineCalls[i].op = op})

InitializeReturned(ret) ==
    \E i \in 1..Len(engineCalls) : engineCalls[i] = EngineCall("initialize", ret)

\* a writer is about to run, is running or has run
WritersReached == pc \in {"logs", "logs2", "output", "done"}

\* C24: in a run in which initialize succeeded, shutdown is called once,
\* after compile has returned and before a log file is written or a report
\* rendered, so that the engine is Uninitialized whenever a writer runs; in
\* a run in which initialize failed, compile and shutdown are never called.
C24_ShutdownOnceBeforeWriters ==
    /\ TimesCalled("shutdown") <= 1
    /\ TimesCalled("shutdown") = 1 =>
          /\ Returned
          /\ engineCalls[Len(engineCalls)].op = "shutdown"
          /\ engineCalls[Len(engineCalls) - 1].op = "compile"
    /\ InitializeReturned(TRUE) =>
          /\ (WritersReached \/ LogsInvoked \/ report # NoReport) =>
                (TimesCalled("shutdown") = 1 /\ ~m_initialized)
          /\ TimesCalled("shutdown") = 0 =>
                (logs = NoLogs /\ report = NoReport)
    /\ InitializeReturned(FALSE) =>
          /\ TimesCalled("compile") = 0
          /\ TimesCalled("shutdown") = 0
          /\ cpc = "idle"
    /\ pc \in {"logs", "logs2", "output"} => ~m_initialized

\* A run that initialized, compiled, shut the engine down, wrote the
\* detailed log and rendered the JSON report.
C24_Witness ==
    /\ pc = "done"
    /\ InitializeReturned(TRUE)
    /\ TimesCalled("shutdown") = 1
    /\ logs.detailedWritten
    /\ report.kind = "json"
    /\ ~m_initialized

=============================================================================
